---------------------------- MODULE Spec2Model ----------------------------
(***************************************************************************)
(* Batch validation pipeline of validate.py:                               *)
(* KubernetesValidator._process_all_batches drives two checkers (schema,   *)
(* lint) over the discovered files batch by batch, appends a fragment per  *)
(* batch to the output file, and finally asks the ValidationAgent for a    *)
(* report.  With single_batch, _process_single_batch checks the first      *)
(* batch only.  Checkers, the output file and the language model are       *)
(* external: each call either returns or raises, chosen                    *)
(* nondeterministically.                                                   *)
(***************************************************************************)
EXTENDS Integers, Sequences, FiniteSets, TLC

\* Bounds of the model.
MaxFiles == 2
MaxBatchSize == 2

\* Files are named 1..n: find_k8s_files returns a sorted list of distinct paths.
FileList(n) == [i \in 1..n |-> i]
FileLists == {FileList(n) : n \in 0..MaxFiles}
\* batch_size is an unchecked int from the command line (type=int).
BatchSizes == -1..MaxBatchSize

\* str(e) of the exceptions that occur.
CloneError == "Error cloning repository"
SinkError == "cannot write output file"
RangeError == "range() arg 3 must not be zero"
ListGetError == "'list' object has no attribute 'get'"
CategorizeError == "'ValidationAgent' object has no attribute '_categorize_error'"
NoError == ""

VARIABLES
    pc,                         \* position in validate_repository
    k8s_files,                  \* files of the repository, as found
    batch_size,                 \* parameter
    output_file,                \* TRUE iff an output file was given
    file,                       \* content of the output file, a list of texts
    batches, total_batches,     \* the partition; total_batches = -1: unbound
    batch_num, idx,             \* loop counters (batch, file within batch)
    batch_kubeconform_results, batch_kubelinter_results,
    all_kubeconform_results, all_kubelinter_results,
    skipped_batches, skipped_files, batch_reports,
    err,                        \* exception caught by the batch handler
    result,                     \* the returned dict
    summarizer_calls,           \* calls of client.chat.completions.create
    schema_status, lint_status, \* per file: notrun, result, unusable, raised
    sink_failed,                \* some write to the output file raised
    faults,                     \* external calls that raised: "clone", "llm"
    exit_code,                  \* what main() returns; -1 while running
    tool_run                    \* what one run of a checker's tool did

vars == <<pc, k8s_files, batch_size, output_file, file, batches, total_batches,
          batch_num, idx, batch_kubeconform_results, batch_kubelinter_results,
          all_kubeconform_results, all_kubelinter_results, skipped_batches,
          skipped_files, batch_reports, err, result, summarizer_calls,
          schema_status, lint_status, sink_failed, faults, exit_code,
          tool_run>>

-----------------------------------------------------------------------------
\* Python helpers.

Min(a, b) == IF a < b THEN a ELSE b
Max(a, b) == IF a > b THEN a ELSE b

InSeq(x, s) == \E i \in 1..Len(s) : s[i] = x
SeqToSet(s) == {s[i] : i \in 1..Len(s)}

RECURSIVE SumSeq(_)
SumSeq(s) == IF s = <<>> THEN 0 ELSE Head(s) + SumSeq(Tail(s))

\* The concatenation of a list of lists.
RECURSIVE Flatten(_)
Flatten(ss) == IF ss = <<>> THEN <<>> ELSE Head(ss) \o Flatten(Tail(ss))

\* A dict of counts: the keys are the values of s, each with its number of
\* occurrences (d[k] = d.get(k, 0) + 1 over s).
CountDict(s) ==
    [k \in SeqToSet(s) |-> Cardinality({i \in 1..Len(s) : s[i] = k})]

\* sum(d.values())
RECURSIVE SumOver(_, _)
SumOver(d, keys) ==
    IF keys = {} THEN 0
    ELSE LET k == CHOOSE x \in keys : TRUE
         IN  d[k] + SumOver(d, keys \ {k})

SumValues(d) == SumOver(d, DOMAIN d)

\* len(range(start, stop, step)) for step # 0.
RangeLen(start, stop, step) ==
    IF step > 0
    THEN (IF stop > start THEN (stop - start + step - 1) \div step ELSE 0)
    ELSE (IF stop < start THEN (start - stop - step - 1) \div (0 - step) ELSE 0)

\* range(start, stop, step) as a sequence.
PyRange(start, stop, step) ==
    [j \in 1..RangeLen(start, stop, step) |-> start + (j - 1) * step]

\* A slice bound, clamped as Python clamps it.
SliceIndex(i, len) == IF i < 0 THEN Max(i + len, 0) ELSE Min(i, len)

\* s[lo:hi]
PySlice(s, lo, hi) ==
    SubSeq(s, SliceIndex(lo, Len(s)) + 1, SliceIndex(hi, Len(s)))

\* A partition that drops the last file of every full slice.
BatchesShortSlice(files, n) ==
    LET starts == PyRange(0, Len(files), n)
    IN  [j \in 1..Len(starts) |-> PySlice(files, starts[j], starts[j] + n - 1)]

\* batches = [k8s_files[i:i + batch_size] for i in range(0, len(k8s_files), batch_size)]
Batches(files, n) ==
    LET starts == PyRange(0, Len(files), n)
    IN  [j \in 1..Len(starts) |-> PySlice(files, starts[j], starts[j] + n)]

-----------------------------------------------------------------------------
\* Checker results.

SchemaOutcomes == {"valid", "invalid", "invalid_no_stderr", "falsy", "raise"}
LintOutcomes == {"clean", "warn", "not_a_dict", "falsy", "raise"}

SchemaUsable(out) == out \in {"valid", "invalid", "invalid_no_stderr"}
LintUsable(out) == out \in {"clean", "warn", "not_a_dict"}

\* What a call did, as far as the caller's control flow tells: it returned a
\* dict (result), returned something else (unusable), or raised.
StatusOf(out) ==
    IF out = "raise" THEN "raised"
    ELSE IF out = "falsy" THEN "unusable" ELSE "result"

\* Error lines of the schema checker, lower-cased as the agent reads them.
ErrorTexts == {"error", "apiversion is missing", "missing required field",
               "schema mismatch"}

\* The keywords of the agent's rules that occur in an error line
\* (the tests 'apiversion' in error_lower, ...).
KeywordsIn(error) ==
    CASE error = "apiversion is missing" -> {"apiversion", "missing"}
      [] error = "missing required field" -> {"missing", "required"}
      [] error = "schema mismatch" -> {"schema"}
      [] OTHER -> {}

\* A JSON null where a string is expected: not isinstance(x, str).
JsonNull == "null"

\* Check names of lint reports.
CheckNames == {"no-resources", "unset-cpu-requirements", "latest-tag",
               "run-as-non-root", "no-liveness-probe", ""}

\* The entries of the agent's check lists that occur in a check name
\* (the tests check in check_name).
ChecksIn(check_name) ==
    CASE check_name = "unset-cpu-requirements" -> {"cpu-requirements"}
      [] check_name = "latest-tag" -> {"latest-tag", "tag"}
      [] check_name = "run-as-non-root" -> {"run-as-non-root"}
      [] check_name = "no-liveness-probe" -> {"liveness-probe", "probe"}
      [] OTHER -> {}

\* One entry of kubelinter_output['Reports'].
LintReport(check) == [Check |-> check, Message |-> "message"]

\* The dict validate_file returns: valid is returncode == 0, errors the stderr lines.
SchemaResult(f, out) ==
    [file |-> f, valid |-> (out = "valid"),
     errors |-> IF out = "invalid" THEN <<"error">> ELSE <<>>]

\* The dict lint_file returns; kubelinter_output is json.loads(stdout), a dict
\* with Reports, or (not_a_dict) some other non-empty JSON value.
LintResult(f, out) ==
    [file |-> f, valid |-> (out = "clean"),
     is_dict |-> (out # "not_a_dict"),
     Reports |-> IF out = "warn" THEN <<LintReport("no-resources")>>
                 ELSE <<>>]


-----------------------------------------------------------------------------
\* Texts written to the output file and returned in the report.

Header == [kind |-> "header"]

\* batch_errors: the results with valid false (line 312).
BatchErrors(kc) == Cardinality({i \in 1..Len(kc) : ~kc[i].valid})

\* batch_warnings: the lint reports of the batch (lines 313-319).
BatchWarnings(kl) == SumSeq([i \in 1..Len(kl) |-> Len(kl[i].Reports)])

\* The batch_report of a processed batch (lines 324-371).
BatchReport(k, files, kc, kl) ==
    [kind |-> "batch", batch |-> k, status |-> "ok", files |-> files,
     processed |-> Cardinality({kc[i].file : i \in 1..Len(kc)}
                               \cup {kl[i].file : i \in 1..Len(kl)}),
     errors |-> BatchErrors(kc), warnings |-> BatchWarnings(kl)]

\* The error_report of a failed batch (lines 386-393).
ErrorReport(k, files, e) ==
    [kind |-> "batch", batch |-> k, status |-> "failed", files |-> files,
     error |-> e]

\* with open(output_file, 'w') as f: f.write(text)
TruncateAndWrite(content, text) == <<text>>

\* The fragment written in mode 'w' in place of 'a': the earlier content is lost.
AppendToFileTruncating(content, text) == <<text>>

\* with open(output_file, 'a') as f: f.write(text)
AppendToFile(content, text) == Append(content, text)

-----------------------------------------------------------------------------
\* Returned dicts.

NoResult == [status |-> "running"]

\* The outer handler (lines 498-507).
OuterError(e) ==
    [status |-> "error", error |-> e,
     kubeconform_results |-> <<>>, kubelinter_results |-> <<>>,
     report |-> <<[kind |-> "text", text |-> "Validation failed", error |-> e]>>]

\* Lines 233-239.
NoFilesResult ==
    [status |-> "no_files", message |-> "No Kubernetes files found",
     kubeconform_results |-> <<>>, kubelinter_results |-> <<>>,
     report |-> <<[kind |-> "text",
                   text |-> "No Kubernetes files found in the repository."]>>]

\* Lines 409-417.
AllFailedResult ==
    [status |-> "error", error |-> "All batches failed during processing",
     skipped_batches |-> skipped_batches,
     skipped_files |-> skipped_files,
     kubeconform_results |-> <<>>, kubelinter_results |-> <<>>,
     report |-> <<[kind |-> "text",
                   text |-> "All batches failed during validation processing."]>>]

\* A failure that is returned as if there had been nothing to validate.
WrapperErrorAsNoFiles(e) == [status |-> "no_files", error |-> e]

\* validate_repository's own returns (lines 88 and 97-99): no report, no results.
WrapperError(e) == [status |-> "error", error |-> e]

NoFilesError == "No Kubernetes files found in repository"

\* An exception that leaves validate_repository: nothing is returned.
ReturnOrEscape(r) ==
    IF r.status = "error"
    THEN pc' = "escaped" /\ result' = NoResult
    ELSE pc' = "done" /\ result' = r

\* The return statements of validate_repository and of the methods it calls:
\* every exception ends in one (lines 97-99, 204-211, 498-507).
Return(r) == pc' = "done" /\ result' = r

\* No tool was run.
NoRun == [tool |-> "none"]

-----------------------------------------------------------------------------
Init ==
    /\ pc = "fetch"
    /\ k8s_files \in FileLists
    /\ batch_size \in BatchSizes
    /\ output_file \in BOOLEAN
    /\ file = <<>>
    /\ batches = <<>>
    /\ total_batches = -1
    /\ batch_num = 0
    /\ idx = 0
    /\ batch_kubeconform_results = <<>>
    /\ batch_kubelinter_results = <<>>
    /\ all_kubeconform_results = <<>>
    /\ all_kubelinter_results = <<>>
    /\ skipped_batches = <<>>
    /\ skipped_files = <<>>
    /\ batch_reports = <<>>
    /\ err = NoError
    /\ result = NoResult
    /\ summarizer_calls = 0
    /\ schema_status = [f \in 1..MaxFiles |-> "notrun"]
    /\ lint_status = [f \in 1..MaxFiles |-> "notrun"]
    /\ sink_failed = FALSE
    /\ faults = {}
    /\ exit_code = -1
    /\ tool_run = NoRun

\* _process_single_batch, line 112: batch_files = k8s_files[:batch_size]
first_batch(files, n) == PySlice(files, 0, n)

\* validate_repository, lines 77-99: clone the repository, find its files
\* and hand them to _process_single_batch (single_batch, whose lines 105-115
\* take the first batch) or to _process_all_batches; no file at all is an
\* error.
FetchRepository ==
    /\ pc = "fetch"
    /\ \/ /\ faults' = faults \cup {"clone"}
          /\ Return(WrapperError(CloneError))
          /\ UNCHANGED <<batches, batch_num, idx>>
       \/ /\ k8s_files = <<>>
          /\ Return(WrapperError(NoFilesError))
          /\ UNCHANGED <<faults, batches, batch_num, idx>>
       \/ /\ k8s_files # <<>>
          /\ \E single_batch \in BOOLEAN :
               IF single_batch
               THEN /\ batches' = <<first_batch(k8s_files, batch_size)>>
                    /\ batch_num' = 1
                    /\ idx' = 1
                    /\ pc' = IF first_batch(k8s_files, batch_size) = <<>>
                             THEN "single_report" ELSE "single_schema"
               ELSE /\ pc' = "clone"
                    /\ UNCHANGED <<batches, batch_num, idx>>
          /\ UNCHANGED <<result, faults>>
    /\ UNCHANGED <<k8s_files, batch_size, output_file, file,
                   total_batches, batch_kubeconform_results,
                   batch_kubelinter_results, all_kubeconform_results,
                   all_kubelinter_results, skipped_batches, skipped_files,
                   batch_reports, err, summarizer_calls, schema_status,
                   lint_status, sink_failed, exit_code, tool_run>>

\* Lines 222-241: _process_all_batches clones the repository again and finds
\* its files again; what it finds replaces the list it was given.
CloneRepo ==
    /\ pc = "clone"
    /\ \/ /\ faults' = faults \cup {"clone"}
          /\ Return(OuterError(CloneError))
          /\ UNCHANGED k8s_files
       \/ /\ \E found \in FileLists :
               /\ k8s_files' = found
               /\ IF found = <<>>
                  THEN Return(NoFilesResult)
                  ELSE pc' = "header" /\ UNCHANGED result
          /\ UNCHANGED faults
    /\ UNCHANGED <<exit_code, tool_run>>
    /\ UNCHANGED <<batch_size, output_file, file, batches,
                   total_batches, batch_num, idx, batch_kubeconform_results,
                   batch_kubelinter_results, all_kubeconform_results,
                   all_kubelinter_results, skipped_batches, skipped_files,
                   batch_reports, err, summarizer_calls, schema_status,
                   lint_status, sink_failed>>

\* Lines 250-262: open(output_file, 'w') and write the header.
WriteHeader ==
    /\ pc = "header"
    /\ \/ /\ ~output_file
          /\ pc' = "partition"
          /\ UNCHANGED <<file, result, sink_failed>>
       \/ /\ output_file
          /\ file' = <<Header>>
          /\ pc' = "partition"
          /\ UNCHANGED <<result, sink_failed>>
       \/ /\ output_file
          /\ sink_failed' = TRUE
          /\ Return(OuterError(SinkError))
          /\ UNCHANGED file
    /\ UNCHANGED <<faults, exit_code, tool_run>>
    /\ UNCHANGED <<k8s_files, batch_size, batches, total_batches, batch_num,
                   idx, batch_kubeconform_results, batch_kubelinter_results,
                   all_kubeconform_results, all_kubelinter_results,
                   skipped_batches, skipped_files, batch_reports, err,
                   summarizer_calls, schema_status, lint_status, output_file>>

\* A loop that is left after its first batch.
MoreBatchesOnlyFirst(k, total) == k <= 1 /\ k <= total

\* Line 270: for batch_num, batch_files in enumerate(batches, 1)
MoreBatches(k, total) == k <= total

\* The loop header of line 270 taking batch k, or leaving the loop after the last.
EnterBatch(k, total) ==
    IF MoreBatches(k, total)
    THEN /\ pc' = "schema"
         /\ batch_num' = k
         /\ idx' = 1
         /\ batch_kubeconform_results' = <<>>
         /\ batch_kubelinter_results' = <<>>
    ELSE /\ pc' = "check"
         /\ UNCHANGED <<batch_num, idx, batch_kubeconform_results,
                        batch_kubelinter_results>>

\* Lines 264-270: split the files into batches; range() raises on a step of 0.
Partition ==
    /\ pc = "partition"
    /\ \/ /\ batch_size = 0
          /\ Return(OuterError(RangeError))
          /\ UNCHANGED <<batches, total_batches, batch_num, idx,
                         batch_kubeconform_results, batch_kubelinter_results>>
       \/ /\ batch_size # 0
          /\ batches' = Batches(k8s_files, batch_size)
          /\ total_batches' = Len(batches')
          /\ EnterBatch(1, Len(Batches(k8s_files, batch_size)))
          /\ UNCHANGED result
    /\ UNCHANGED <<faults, exit_code, tool_run>>
    /\ UNCHANGED <<k8s_files, batch_size, output_file, file,
                   all_kubeconform_results, all_kubelinter_results,
                   skipped_batches, skipped_files, batch_reports, err,
                   summarizer_calls, schema_status, lint_status, sink_failed>>

batch_files == batches[batch_num]

\* A checker's exception escaping the per-file try: the batch handler gets it.
AfterSchemaUncaught(out, last) ==
    IF out = "raise" THEN "handler" ELSE IF last THEN "lint" ELSE "schema"

\* Lines 279-290: every outcome of validate_file, an exception included, is
\* handled inside the loop, which goes on to the next file.
AfterSchema(out, last) == IF last THEN "lint" ELSE "schema"

\* Lines 283-289: a file without a usable schema result is a skipped file.
SkippedAfterSchema(skipped, f, out) ==
    IF SchemaUsable(out) THEN skipped ELSE Append(skipped, f)

\* A lint failure that is not recorded.
SkippedAfterLintForgotten(skipped, f, out) == skipped

\* Lines 297-304: a file without a usable lint result is a skipped file.
SkippedAfterLint(skipped, f, out) ==
    IF LintUsable(out) THEN skipped ELSE Append(skipped, f)

\* Linting whatever the schema checker did.
ShouldLintAlways(f, skipped) == TRUE

\* Line 294: if file_path not in skipped_files
ShouldLint(f, skipped) == ~InSeq(f, skipped)

\* Lines 279-290: one iteration of the schema loop.
SchemaCheck ==
    /\ pc = "schema"
    /\ \E out \in SchemaOutcomes :
         LET f == batch_files[idx]
             last == idx = Len(batch_files)
         IN  /\ schema_status' =
                  [schema_status EXCEPT
                     ![f] = StatusOf(out)]
             /\ batch_kubeconform_results' =
                  IF SchemaUsable(out)
                  THEN Append(batch_kubeconform_results, SchemaResult(f, out))
                  ELSE batch_kubeconform_results
             /\ skipped_files' = SkippedAfterSchema(skipped_files, f, out)
             /\ pc' = AfterSchema(out, last)
             /\ idx' = IF last THEN 1 ELSE idx + 1
    /\ UNCHANGED <<faults, exit_code, tool_run>>
    /\ UNCHANGED <<k8s_files, batch_size, output_file, file, batches,
                   total_batches, batch_num, batch_kubelinter_results,
                   all_kubeconform_results, all_kubelinter_results,
                   skipped_batches, batch_reports, err, result,
                   summarizer_calls, lint_status, sink_failed>>

\* Lines 293-305: one iteration of the lint loop.
LintCheck ==
    /\ pc = "lint"
    /\ LET f == batch_files[idx]
           last == idx = Len(batch_files)
       IN  /\ \/ /\ ~ShouldLint(f, skipped_files)
                 /\ UNCHANGED <<lint_status, batch_kubelinter_results,
                                skipped_files>>
              \/ /\ ShouldLint(f, skipped_files)
                 /\ \E out \in LintOutcomes :
                      /\ lint_status' =
                           [lint_status EXCEPT ![f] = StatusOf(out)]
                      /\ batch_kubelinter_results' =
                           IF LintUsable(out)
                           THEN Append(batch_kubelinter_results,
                                       LintResult(f, out))
                           ELSE batch_kubelinter_results
                      /\ skipped_files' =
                           SkippedAfterLint(skipped_files, f, out)
           /\ pc' = IF last THEN "finish" ELSE "lint"
           /\ idx' = IF last THEN idx ELSE idx + 1
    /\ UNCHANGED <<faults, exit_code, tool_run>>
    /\ UNCHANGED <<k8s_files, batch_size, output_file, file, batches,
                   total_batches, batch_num, batch_kubeconform_results,
                   all_kubeconform_results, all_kubelinter_results,
                   skipped_batches, batch_reports, err, result,
                   summarizer_calls, schema_status, sink_failed>>

\* Lines 315-317 and 355-356: .get on a kubelinter_output that is no dict raises.
HasNonDict(kl) == \E i \in 1..Len(kl) : ~kl[i].is_dict

\* Lines 307-379: extend the cumulative results, build the batch report and
\* append it to the output file.
FinishBatch ==
    /\ pc = "finish"
    /\ all_kubeconform_results' =
         all_kubeconform_results \o batch_kubeconform_results
    /\ all_kubelinter_results' =
         all_kubelinter_results \o batch_kubelinter_results
    /\ LET report == BatchReport(batch_num, batch_files,
                                 batch_kubeconform_results,
                                 batch_kubelinter_results)
       IN  \/ /\ HasNonDict(batch_kubelinter_results)
              /\ err' = ListGetError
              /\ pc' = "handler"
              /\ UNCHANGED <<file, batch_reports, sink_failed, batch_num, idx,
                             batch_kubeconform_results,
                             batch_kubelinter_results>>
           \/ /\ ~HasNonDict(batch_kubelinter_results)
              /\ output_file
              /\ err' = SinkError
              /\ sink_failed' = TRUE
              /\ pc' = "handler"
              /\ UNCHANGED <<file, batch_reports, batch_num, idx,
                             batch_kubeconform_results,
                             batch_kubelinter_results>>
           \/ /\ ~HasNonDict(batch_kubelinter_results)
              /\ file' = IF output_file THEN AppendToFile(file, report)
                         ELSE file
              /\ batch_reports' = Append(batch_reports, report)
              /\ EnterBatch(batch_num + 1, total_batches)
              /\ UNCHANGED <<err, sink_failed>>
    /\ UNCHANGED <<faults, exit_code, tool_run>>
    /\ UNCHANGED <<k8s_files, batch_size, output_file, batches, total_batches,
                   skipped_batches, skipped_files, result, summarizer_calls,
                   schema_status, lint_status>>

\* Lines 381-404: the handler of a failed batch writes the error report to
\* the output file, records the batch and continues with the next one.  The
\* write is not guarded: if it raises, the outer handler ends the run.
HandleBatchFailure ==
    /\ pc = "handler"
    /\ \/ /\ output_file
          /\ sink_failed' = TRUE
          /\ Return(OuterError(SinkError))
          /\ UNCHANGED <<file, skipped_batches, err, batch_num, idx,
                         batch_kubeconform_results, batch_kubelinter_results>>
       \/ /\ file' = IF output_file
                     THEN AppendToFile(file,
                                       ErrorReport(batch_num, batch_files, err))
                     ELSE file
          /\ skipped_batches' =
               Append(skipped_batches,
                      [batch_number |-> batch_num, files |-> batch_files,
                       error |-> err])
          /\ err' = NoError
          /\ EnterBatch(batch_num + 1, total_batches)
          /\ UNCHANGED <<result, sink_failed>>
    /\ UNCHANGED <<faults, exit_code, tool_run>>
    /\ UNCHANGED <<k8s_files, batch_size, output_file, batches, total_batches,
                   all_kubeconform_results, all_kubelinter_results,
                   skipped_files, batch_reports, summarizer_calls,
                   schema_status, lint_status>>

\* Lines 406-417: no result at all ends the run with the error status.
CheckResults ==
    /\ pc = "check"
    /\ IF all_kubeconform_results = <<>> /\ all_kubelinter_results = <<>>
       THEN Return(AllFailedResult)
       ELSE pc' = "report" /\ UNCHANGED result
    /\ UNCHANGED <<faults, exit_code, tool_run>>
    /\ UNCHANGED <<k8s_files, batch_size, output_file, file, batches,
                   total_batches, batch_num, idx, batch_kubeconform_results,
                   batch_kubelinter_results, all_kubeconform_results,
                   all_kubelinter_results, skipped_batches, skipped_files,
                   batch_reports, err, summarizer_calls, schema_status,
                   lint_status, sink_failed>>

-----------------------------------------------------------------------------
\* ValidationAgent.

\* validation_agent.py lines 240-263.  analyze_combined_results never calls
\* it: line 85 calls self._categorize_error, a name ValidationAgent does not
\* define (see AnalysisRaises).
categorize_kubeconform_error(error_message) ==
    IF {"schema", "validation"} \cap KeywordsIn(error_message) # {}
    THEN "Schema Validation"
    ELSE IF "apiversion" \in KeywordsIn(error_message) THEN "API Version"
    ELSE IF "kind" \in KeywordsIn(error_message) THEN "Resource Kind"
    ELSE IF "metadata" \in KeywordsIn(error_message) THEN "Metadata Issues"
    ELSE IF "spec" \in KeywordsIn(error_message) THEN "Specification Errors"
    ELSE IF {"required", "missing"} \cap KeywordsIn(error_message) # {}
    THEN "Missing Required Fields"
    ELSE IF {"format", "syntax"} \cap KeywordsIn(error_message) # {}
    THEN "Format/Syntax Errors"
    ELSE IF "timeout" \in KeywordsIn(error_message) THEN "Validation Timeout"
    ELSE IF "not found" \in KeywordsIn(error_message) THEN "File Not Found"
    ELSE "Other Validation Errors"

\* validation_agent.py lines 265-310; the message argument is not read.
categorize_kubelinter_issue(check_name) ==
    IF check_name = "" THEN "Unknown Issue"
    ELSE IF ChecksIn(check_name) \cap
              {"run-as-non-root", "privileged-ports",
               "privilege-escalation-container", "read-only-root-filesystem",
               "non-root-user", "security-context"} # {}
    THEN "Security Configuration"
    ELSE IF ChecksIn(check_name) \cap
              {"cpu-requirements", "memory-requirements",
               "resource-requirements", "cpu-limits", "memory-limits"} # {}
    THEN "Resource Management"
    ELSE IF ChecksIn(check_name) \cap {"latest-tag", "image", "tag"} # {}
    THEN "Image Configuration"
    ELSE IF ChecksIn(check_name) \cap
              {"liveness-probe", "readiness-probe", "startup-probe",
               "health-check", "probe"} # {}
    THEN "Health Monitoring"
    ELSE IF ChecksIn(check_name) \cap
              {"anti-affinity", "pod-disruption-budget", "replicas",
               "availability", "disruption"} # {}
    THEN "Availability & Reliability"
    ELSE "Best Practice Violations"

\* dict.get(key, 0)
Get(d, key) == IF key \in DOMAIN d THEN d[key] ELSE 0

\* validation_agent.py lines 312-348.
generate_combined_recommendations(error_types, warning_types) ==
    (IF Get(error_types, "API Version") > 0
     THEN <<"Update deprecated API versions">> ELSE <<>>)
    \o (IF Get(error_types, "Missing Required Fields") > 0
        THEN <<"Add missing required fields">> ELSE <<>>)
    \o (IF Get(error_types, "Schema Validation") > 0
        THEN <<"Fix schema validation errors">> ELSE <<>>)
    \o (IF Get(warning_types, "Security Issues") > 0
        THEN <<"Address security vulnerabilities">> ELSE <<>>)
    \o (IF Get(warning_types, "Resource Management") > 0
        THEN <<"Configure proper resource limits">> ELSE <<>>)
    \o (IF Get(warning_types, "Health Checks") > 0
        THEN <<"Add health checks">> ELSE <<>>)
    \o (IF Get(warning_types, "Image Configuration") > 0
        THEN <<"Use specific image tags">> ELSE <<>>)
    \o (IF SumValues(error_types) + SumValues(warning_types) > 15
        THEN <<"Implement automated validation">> ELSE <<>>)
    \o (IF Get(warning_types, "Deprecated Features") > 0
        THEN <<"Migrate away from deprecated features">> ELSE <<>>)

\* validation_agent.py lines 382-411: a fix, or no fix (None) as <<>>.
generate_kubeconform_fix(file_path, error) ==
    IF "apiversion" \in KeywordsIn(error)
    THEN <<[file |-> file_path, type |-> "API Version Fix", issue |-> error]>>
    ELSE IF {"missing", "required"} \subseteq KeywordsIn(error)
    THEN <<[file |-> file_path, type |-> "Missing Field Fix", issue |-> error]>>
    ELSE IF "schema" \in KeywordsIn(error)
    THEN <<[file |-> file_path, type |-> "Schema Fix", issue |-> error]>>
    ELSE <<>>

\* validation_agent.py lines 413-462: fixes_map is keyed by the exact check name.
generate_kubelinter_fix(file_path, report) ==
    [file |-> file_path,
     type |-> CASE report.Check = "no-read-only-root-fs" -> "Security Fix"
                [] report.Check = "no-resources" -> "Resource Limits Fix"
                [] report.Check = "no-liveness-probe" -> "Health Check Fix"
                [] report.Check = "no-readiness-probe" -> "Health Check Fix"
                [] report.Check = "latest-tag" -> "Image Tag Fix"
                [] OTHER -> "Best Practice Fix",
     issue |-> report.Message]

\* Fixes with those of the lint reports ahead of those of the schema results.
generate_fixes_lint_first(kc, kl) ==
    Flatten([i \in 1..Len(kl) |->
               [j \in 1..Len(kl[i].Reports) |->
                  generate_kubelinter_fix(kl[i].file, kl[i].Reports[j])]])
    \o Flatten([i \in 1..Len(kc) |->
                  IF kc[i].valid THEN <<>>
                  ELSE Flatten([j \in 1..Len(kc[i].errors) |->
                           generate_kubeconform_fix(kc[i].file,
                                                    kc[i].errors[j])])])

\* validation_agent.py lines 350-380: the fixes of the invalid schema
\* results, then those of the lint reports.
generate_fixes(kc, kl) ==
    Flatten([i \in 1..Len(kc) |->
               IF kc[i].valid THEN <<>>
               ELSE Flatten([j \in 1..Len(kc[i].errors) |->
                        generate_kubeconform_fix(kc[i].file,
                                                 kc[i].errors[j])])])
    \o Flatten([i \in 1..Len(kl) |->
                  [j \in 1..Len(kl[i].Reports) |->
                     generate_kubelinter_fix(kl[i].file, kl[i].Reports[j])]])

\* The reports lines 89-112 count: those of the outputs that are dicts.
CountedReports(kl) ==
    Flatten([i \in 1..Len(kl) |->
               IF kl[i].is_dict THEN kl[i].Reports ELSE <<>>])

\* Lines 109-112: only a check name that is a string is categorized.
WarningCategories(reports) ==
    Flatten([j \in 1..Len(reports) |->
               IF reports[j].Check # JsonNull
               THEN <<categorize_kubelinter_issue(reports[j].Check)>>
               ELSE <<>>])

\* The exception analyze_combined_results ends with, if any.  Line 85 calls
\* self._categorize_error, which ValidationAgent does not define (the method
\* is _categorize_kubeconform_error): the first error string raises
\* AttributeError.  _generate_fixes (line 373) calls .get on every truthy
\* kubelinter_output, which raises for one that is no dict.
AnalysisRaises(kc, kl) ==
    IF \E i \in 1..Len(kc) : kc[i].errors # <<>>
    THEN CategorizeError
    ELSE IF HasNonDict(kl) THEN ListGetError ELSE NoError

\* validation_agent.py lines 37-130: the ValidationSummary, or the exception.
analyze_combined_results(kc, kl) ==
    IF AnalysisRaises(kc, kl) # NoError
    THEN [raised |-> AnalysisRaises(kc, kl)]
    ELSE LET error_types == <<>>
             warning_types ==
                 CountDict(WarningCategories(CountedReports(kl)))
         IN  [raised |-> NoError,
              total_files |-> Cardinality({kc[i].file : i \in 1..Len(kc)}
                                          \cup {kl[i].file : i \in 1..Len(kl)}),
              valid_files |-> Cardinality({i \in 1..Len(kc) : kc[i].valid}),
              invalid_files |->
                  Cardinality({i \in 1..Len(kc) : ~kc[i].valid}),
              total_errors |-> SumSeq([i \in 1..Len(kc) |-> Len(kc[i].errors)]),
              total_warnings |-> Len(CountedReports(kl)),
              error_types |-> error_types,
              warning_types |-> warning_types,
              recommendations |->
                  generate_combined_recommendations(error_types,
                                                    warning_types),
              fixes |-> generate_fixes(kc, kl)]

\* What the language model call leaves in ai_analysis (lines 203-224).
AiAnalyses == {"analysis", "AI analysis unavailable"}

LlmError == "language model call failed"

\* The language model's exception leaving generate_comprehensive_report.
AfterSummarizerUncaught(ai, r) ==
    IF ai = "AI analysis unavailable" THEN OuterError(LlmError) ELSE r

\* validation_agent.py lines 203-227: the call's exception is caught and
\* becomes the text of the analysis; the report is built either way.
AfterSummarizer(ai, r) == r

\* validation_agent.py lines 226-227: the formatted report.
RepositoryReport(summary, ai) ==
    [kind |-> "narrative", summary |-> summary, ai_analysis |-> ai]

\* validate.py lines 455-472.
ProcessingNotes(processed) ==
    [kind |-> "processing_notes",
     batches_skipped |-> Len(skipped_batches),
     files_skipped |-> Cardinality(SeqToSet(skipped_files)),
     processed |-> processed,
     sample |-> SeqToSet(skipped_files)]

\* A final report that leaves out the processing notes.
FinalReportWithoutNotes(detailed_report, processed) ==
    <<detailed_report>>
    \o (IF batch_reports # <<>>
        THEN <<[kind |-> "batch_details_heading"]>> \o batch_reports
        ELSE <<>>)

\* validate.py lines 444-472.
FinalReport(detailed_report, processed) ==
    <<detailed_report>>
    \o (IF batch_reports # <<>>
        THEN <<[kind |-> "batch_details_heading"]>> \o batch_reports
        ELSE <<>>)
    \o (IF skipped_batches # <<>> \/ skipped_files # <<>>
        THEN <<ProcessingNotes(processed)>>
        ELSE <<>>)

\* A result whose status tells that something was skipped.
SuccessResultPartial(detailed_report, summary) ==
    [status |-> IF skipped_batches # <<>> \/ skipped_files # <<>>
                THEN "partial_failure" ELSE "success",
     total_files |-> Len(k8s_files),
     processed_files |-> summary.total_files,
     skipped_files |-> Cardinality(SeqToSet(skipped_files)),
     batches_processed |-> total_batches - Len(skipped_batches),
     batches_skipped |-> Len(skipped_batches),
     batch_size |-> batch_size,
     skipped_batches |-> skipped_batches,
     skipped_file_list |-> SeqToSet(skipped_files),
     batch_reports |-> batch_reports,
     kubeconform_results |-> all_kubeconform_results,
     kubelinter_results |-> all_kubelinter_results,
     summary |-> summary,
     report |-> FinalReport(detailed_report, summary.total_files)]

\* validate.py lines 478-496.
SuccessResult(detailed_report, summary) ==
    [status |-> "success",
     total_files |-> Len(k8s_files),
     processed_files |-> summary.total_files,
     skipped_files |-> Cardinality(SeqToSet(skipped_files)),
     batches_processed |-> total_batches - Len(skipped_batches),
     batches_skipped |-> Len(skipped_batches),
     batch_size |-> batch_size,
     skipped_batches |-> skipped_batches,
     skipped_file_list |-> SeqToSet(skipped_files),
     batch_reports |-> batch_reports,
     kubeconform_results |-> all_kubeconform_results,
     kubelinter_results |-> all_kubelinter_results,
     summary |-> summary,
     report |-> FinalReport(detailed_report, summary.total_files)]

\* validate.py lines 436-496 with generate_comprehensive_report
\* (validation_agent.py lines 132-238): analyse the cumulative results, call
\* the language model (a failure becomes text), write the report over the
\* output file (a failure is printed and ignored), return.
GenerateReport ==
    /\ pc = "report"
    /\ \E summary \in {analyze_combined_results(all_kubeconform_results,
                                                 all_kubelinter_results)} :
           \/ /\ summary.raised # NoError
              /\ Return(OuterError(summary.raised))
              /\ UNCHANGED <<file, summarizer_calls, sink_failed, faults>>
           \/ /\ summary.raised = NoError
              /\ \E ai \in AiAnalyses, saved \in BOOLEAN :
                   \E report \in {RepositoryReport(summary, ai)} :
                       /\ saved => output_file
                       /\ summarizer_calls' = summarizer_calls + 1
                       /\ faults' = IF ai = "AI analysis unavailable"
                                    THEN faults \cup {"llm"}
                                    ELSE faults
                       /\ file' = IF saved
                                  THEN TruncateAndWrite(file, report)
                                  ELSE file
                       /\ sink_failed' =
                            (sink_failed \/ (output_file /\ ~saved))
                       /\ Return(AfterSummarizer(
                                   ai, SuccessResult(report, summary)))
    /\ UNCHANGED <<exit_code, tool_run>>
    /\ UNCHANGED <<k8s_files, batch_size, output_file, batches, total_batches,
                   batch_num, idx, batch_kubeconform_results,
                   batch_kubelinter_results, all_kubeconform_results,
                   all_kubelinter_results, skipped_batches, skipped_files,
                   batch_reports, err, schema_status, lint_status>>

-----------------------------------------------------------------------------
\* _process_single_batch.  Its lists kubeconform_results and
\* kubelinter_results are batch_kubeconform_results and
\* batch_kubelinter_results here; its batch_files is batches[1].

\* processed_files: the files that have a schema result (lines 128-129).
processed_files ==
    [i \in 1..Len(batch_kubeconform_results) |->
       batch_kubeconform_results[i].file]

\* Lines 204-211.
SingleBatchError(e) ==
    [status |-> "error", analysis_type |-> "single_batch", error |-> e,
     batch_files |-> batch_files]

\* Lines 181-202.
SingleBatchResult(comprehensive_report) ==
    [status |-> "success", analysis_type |-> "single_batch",
     batch_size |-> batch_size,
     total_files_in_repo |-> 0,
     files_in_batch |-> Len(batch_files),
     processed_files |-> Len(processed_files),
     valid_files |->
         Cardinality({i \in 1..Len(batch_kubeconform_results) :
                        batch_kubeconform_results[i].valid}),
     invalid_files |->
         Cardinality({i \in 1..Len(batch_kubeconform_results) :
                        ~batch_kubeconform_results[i].valid}),
     schema_errors |->
         SumSeq([i \in 1..Len(batch_kubeconform_results) |->
                   Len(batch_kubeconform_results[i].errors)]),
     best_practice_warnings |-> BatchWarnings(batch_kubelinter_results),
     skipped_files |-> Len(skipped_files),
     batch_files |-> batch_files,
     kubeconform_results |-> batch_kubeconform_results,
     kubelinter_results |-> batch_kubelinter_results,
     comprehensive_report |-> comprehensive_report]

\* Lines 124-137: one iteration of the schema loop; every outcome of
\* validate_file is handled inside the loop.
SingleSchemaCheck ==
    /\ pc = "single_schema"
    /\ \E out \in SchemaOutcomes :
         LET f == batch_files[idx]
             last == idx = Len(batch_files)
         IN  /\ schema_status' = [schema_status EXCEPT ![f] = StatusOf(out)]
             /\ batch_kubeconform_results' =
                  IF SchemaUsable(out)
                  THEN Append(batch_kubeconform_results, SchemaResult(f, out))
                  ELSE batch_kubeconform_results
             /\ skipped_files' =
                  IF SchemaUsable(out) THEN skipped_files
                  ELSE Append(skipped_files, f)
             /\ pc' = IF ~last THEN "single_schema"
                      ELSE IF batch_kubeconform_results' = <<>>
                      THEN "single_report" ELSE "single_lint"
             /\ idx' = IF last THEN 1 ELSE idx + 1
    /\ UNCHANGED <<k8s_files, batch_size, output_file, file, batches,
                   total_batches, batch_num, batch_kubelinter_results,
                   all_kubeconform_results, all_kubelinter_results,
                   skipped_batches, batch_reports, err, result,
                   summarizer_calls, lint_status, sink_failed, faults,
                   exit_code, tool_run>>

\* Lines 140-153: one iteration of the lint loop, over processed_files.  A
\* result is appended before kubelinter_output.get (line 148) can raise, and
\* a file without a lint result is not added to skipped_files.
SingleLintCheck ==
    /\ pc = "single_lint"
    /\ \E out \in LintOutcomes :
         LET f == processed_files[idx]
             last == idx = Len(processed_files)
         IN  /\ lint_status' = [lint_status EXCEPT ![f] = StatusOf(out)]
             /\ batch_kubelinter_results' =
                  IF LintUsable(out)
                  THEN Append(batch_kubelinter_results, LintResult(f, out))
                  ELSE batch_kubelinter_results
             /\ pc' = IF last THEN "single_report" ELSE "single_lint"
             /\ idx' = IF last THEN idx ELSE idx + 1
    /\ UNCHANGED <<k8s_files, batch_size, output_file, file, batches,
                   total_batches, batch_num, batch_kubeconform_results,
                   all_kubeconform_results, all_kubelinter_results,
                   skipped_batches, skipped_files, batch_reports, err,
                   result, summarizer_calls, schema_status, sink_failed,
                   faults, exit_code, tool_run>>

\* Lines 155-211 with generate_comprehensive_report: the counts (line 161
\* calls .get on every kubelinter_output and raises on one that is no
\* dict), the report, the returned dict; any exception gives the error dict.
SingleBatchReport ==
    /\ pc = "single_report"
    /\ \E summary \in {analyze_combined_results(batch_kubeconform_results,
                                                 batch_kubelinter_results)} :
           \/ /\ HasNonDict(batch_kubelinter_results)
              /\ Return(SingleBatchError(ListGetError))
              /\ UNCHANGED <<file, summarizer_calls, sink_failed, faults>>
           \/ /\ ~HasNonDict(batch_kubelinter_results)
              /\ summary.raised # NoError
              /\ Return(SingleBatchError(summary.raised))
              /\ UNCHANGED <<file, summarizer_calls, sink_failed, faults>>
           \/ /\ summary.raised = NoError
              /\ \E ai \in AiAnalyses, saved \in BOOLEAN :
                   \E report \in {RepositoryReport(summary, ai)} :
                       /\ saved => output_file
                       /\ summarizer_calls' = summarizer_calls + 1
                       /\ faults' = IF ai = "AI analysis unavailable"
                                    THEN faults \cup {"llm"}
                                    ELSE faults
                       /\ file' = IF saved
                                  THEN TruncateAndWrite(file, report)
                                  ELSE file
                       /\ sink_failed' =
                            (sink_failed \/ (output_file /\ ~saved))
                       /\ Return(SingleBatchResult(report))
    /\ UNCHANGED <<k8s_files, batch_size, output_file, batches,
                   total_batches, batch_num, idx, batch_kubeconform_results,
                   batch_kubelinter_results, all_kubeconform_results,
                   all_kubelinter_results, skipped_batches, skipped_files,
                   batch_reports, err, schema_status, lint_status, exit_code,
                   tool_run>>

\* main, lines 724-738: the exit code.
ExitCode(r) ==
    IF r.status = "error" THEN 1
    ELSE IF r.status = "no_files" THEN 2
    ELSE IF /\ \A i \in 1..Len(r.kubeconform_results) :
                 r.kubeconform_results[i].valid
            /\ \A i \in 1..Len(r.kubelinter_results) :
                 r.kubelinter_results[i].valid
    THEN 0
    ELSE 3

\* results.get('report', 'No report generated')
ReportOf(r) ==
    IF "report" \in DOMAIN r THEN r.report
    ELSE <<[kind |-> "text", text |-> "No report generated"]>>

\* main, lines 715-738, with save_report (lines 608-621, text format): the
\* report is saved only when the output file does not exist yet, a failure
\* to save is printed and ignored, and the status decides the exit code.
MainExit ==
    /\ pc = "done"
    /\ pc' = "exit"
    /\ exit_code' = ExitCode(result)
    /\ \/ /\ output_file /\ file = <<>>
          /\ file' = TruncateAndWrite(file, [kind |-> "saved",
                                             report |-> ReportOf(result)])
          /\ UNCHANGED sink_failed
       \/ /\ output_file /\ file = <<>>
          /\ sink_failed' = TRUE
          /\ UNCHANGED file
       \/ /\ ~(output_file /\ file = <<>>)
          /\ UNCHANGED <<file, sink_failed>>
    /\ UNCHANGED <<k8s_files, batch_size, output_file, batches, total_batches,
                   batch_num, idx, batch_kubeconform_results,
                   batch_kubelinter_results, all_kubeconform_results,
                   all_kubelinter_results, skipped_batches, skipped_files,
                   batch_reports, err, result, summarizer_calls,
                   schema_status, lint_status, faults, tool_run>>

-----------------------------------------------------------------------------
Next ==
    \/ FetchRepository
    \/ CloneRepo
    \/ WriteHeader
    \/ Partition
    \/ SchemaCheck
    \/ LintCheck
    \/ FinishBatch
    \/ HandleBatchFailure
    \/ CheckResults
    \/ GenerateReport
    \/ SingleSchemaCheck
    \/ SingleLintCheck
    \/ SingleBatchReport
    \/ MainExit

Spec == Init /\ [][Next]_vars

\* The call of validate_repository took the single-batch path.
SingleBatchRun ==
    \/ pc \in {"single_schema", "single_lint", "single_report"}
    \/ "analysis_type" \in DOMAIN result

-----------------------------------------------------------------------------
\* The partition alone, over longer file lists and larger batch sizes.

PartMaxFiles == 7
PartMaxBatchSize == 7

InitPartition ==
    /\ pc = "partition"
    /\ k8s_files \in {FileList(n) : n \in 1..PartMaxFiles}
    /\ batch_size \in -1..PartMaxBatchSize
    /\ output_file = FALSE
    /\ file = <<>>
    /\ batches = <<>>
    /\ total_batches = -1
    /\ batch_num = 0
    /\ idx = 0
    /\ batch_kubeconform_results = <<>>
    /\ batch_kubelinter_results = <<>>
    /\ all_kubeconform_results = <<>>
    /\ all_kubelinter_results = <<>>
    /\ skipped_batches = <<>>
    /\ skipped_files = <<>>
    /\ batch_reports = <<>>
    /\ err = NoError
    /\ result = NoResult
    /\ summarizer_calls = 0
    /\ schema_status = [f \in 1..MaxFiles |-> "notrun"]
    /\ lint_status = [f \in 1..MaxFiles |-> "notrun"]
    /\ sink_failed = FALSE
    /\ faults = {}
    /\ exit_code = -1
    /\ tool_run = NoRun

SpecPartition == InitPartition /\ [][Partition]_vars

-----------------------------------------------------------------------------
\* analyze_combined_results alone, over lists of results as the batch loop
\* builds them: at most one result per file and checker, in file order.

AnMaxFiles == 3

SchemaKinds == {"valid", "apiversion", "invalid_no_stderr"}
LintKinds == {"clean", "no-resources", "unset-cpu-requirements", "null_check",
              "not_a_dict"}

\* A result of validate_file as the agent receives it.
AnalyzedSchemaResult(f, kind) ==
    IF kind = "apiversion"
    THEN [file |-> f, valid |-> FALSE, errors |-> <<"apiversion is missing">>]
    ELSE SchemaResult(f, kind)

\* A result of lint_file as the agent receives it; null_check is a report
\* whose Check is not a string.
AnalyzedLintResult(f, kind) ==
    IF kind \in {"clean", "not_a_dict"}
    THEN LintResult(f, kind)
    ELSE [file |-> f, valid |-> FALSE, is_dict |-> TRUE,
          Reports |-> <<LintReport(IF kind = "null_check" THEN JsonNull
                                   ELSE kind)>>]

AnalyzedSchemaLists ==
    {Flatten([f \in 1..AnMaxFiles |->
                IF a[f] = "absent" THEN <<>>
                ELSE <<AnalyzedSchemaResult(f, a[f])>>]) :
       a \in [1..AnMaxFiles -> SchemaKinds \cup {"absent"}]}

AnalyzedLintLists ==
    {Flatten([f \in 1..AnMaxFiles |->
                IF a[f] = "absent" THEN <<>>
                ELSE <<AnalyzedLintResult(f, a[f])>>]) :
       a \in [1..AnMaxFiles -> LintKinds \cup {"absent"}]}

InitAnalyze ==
    /\ pc = "analyze"
    /\ all_kubeconform_results \in AnalyzedSchemaLists
    /\ all_kubelinter_results \in AnalyzedLintLists
    /\ k8s_files = FileList(AnMaxFiles)
    /\ batch_size = 1
    /\ output_file = FALSE
    /\ file = <<>>
    /\ batches = <<>>
    /\ total_batches = -1
    /\ batch_num = 0
    /\ idx = 0
    /\ batch_kubeconform_results = <<>>
    /\ batch_kubelinter_results = <<>>
    /\ skipped_batches = <<>>
    /\ skipped_files = <<>>
    /\ batch_reports = <<>>
    /\ err = NoError
    /\ result = NoResult
    /\ summarizer_calls = 0
    /\ schema_status = [f \in 1..AnMaxFiles |-> "notrun"]
    /\ lint_status = [f \in 1..AnMaxFiles |-> "notrun"]
    /\ sink_failed = FALSE
    /\ faults = {}
    /\ exit_code = -1
    /\ tool_run = NoRun

\* One call of analyze_combined_results (validation_agent.py line 152).
AnalyzeResults ==
    /\ pc = "analyze"
    /\ pc' = "analyzed"
    /\ result' = analyze_combined_results(all_kubeconform_results,
                                          all_kubelinter_results)
    /\ UNCHANGED <<k8s_files, batch_size, output_file, file, batches,
                   total_batches, batch_num, idx, batch_kubeconform_results,
                   batch_kubelinter_results, all_kubeconform_results,
                   all_kubelinter_results, skipped_batches, skipped_files,
                   batch_reports, err, summarizer_calls, schema_status,
                   lint_status, sink_failed, faults, exit_code, tool_run>>

SpecAnalyze == InitAnalyze /\ [][AnalyzeResults]_vars

-----------------------------------------------------------------------------
\* analyze_combined_results on results that carry several findings: up to two
\* schema results with one error line each, and one lint result with up to
\* MaxReports reports whose check names and messages vary.

MaxReports == 2

\* Error lines, the empty line included.
FindingErrors == ErrorTexts \cup {""}

\* Messages of lint reports; the second one names a check of the agent's
\* image list.
MessageTexts == {"message", "image uses the latest-tag"}

\* The entries of the agent's check lists that occur in a message.
ChecksInMessage(message) ==
    CASE message = "image uses the latest-tag" -> {"latest-tag", "tag", "image"}
      [] OTHER -> {}

\* One entry of kubelinter_output['Reports'] with its own message.
LintReportWith(check, message) == [Check |-> check, Message |-> message]

FindingReports ==
    {LintReportWith(c, m) : c \in CheckNames \cup {JsonNull}, m \in MessageTexts}

\* The dict validate_file returns for a file whose stderr is one line.
SchemaResultWith(f, valid, error) ==
    [file |-> f, valid |-> valid, errors |-> <<error>>]

FindingSchemaResults(f) ==
    {[file |-> f, valid |-> TRUE, errors |-> <<>>]}
    \cup {SchemaResultWith(f, FALSE, e) : e \in FindingErrors}

FindingSchemaLists ==
    {<<>>}
    \cup {<<r>> : r \in FindingSchemaResults(1)}
    \cup {<<r, s>> : r \in FindingSchemaResults(1),
                     s \in FindingSchemaResults(2)}

FindingLintLists ==
    UNION {{<<[file |-> 1, valid |-> (n = 0), is_dict |-> TRUE,
               Reports |-> reports]>> :
              reports \in [1..n -> FindingReports]} : n \in 0..MaxReports}

InitFindings ==
    /\ pc = "analyze"
    /\ all_kubeconform_results \in FindingSchemaLists
    /\ all_kubelinter_results \in FindingLintLists
    /\ k8s_files = FileList(2)
    /\ batch_size = 1
    /\ output_file = FALSE
    /\ file = <<>>
    /\ batches = <<>>
    /\ total_batches = -1
    /\ batch_num = 0
    /\ idx = 0
    /\ batch_kubeconform_results = <<>>
    /\ batch_kubelinter_results = <<>>
    /\ skipped_batches = <<>>
    /\ skipped_files = <<>>
    /\ batch_reports = <<>>
    /\ err = NoError
    /\ result = NoResult
    /\ summarizer_calls = 0
    /\ schema_status = [f \in 1..2 |-> "notrun"]
    /\ lint_status = [f \in 1..2 |-> "notrun"]
    /\ sink_failed = FALSE
    /\ faults = {}
    /\ exit_code = -1
    /\ tool_run = NoRun

SpecFindings == InitFindings /\ [][AnalyzeResults]_vars

-----------------------------------------------------------------------------
\* The checkers' wrappers alone: KubevalTool.validate_file,
\* KubeLinterTool.lint_file and TerraformTools.validate_file, each over what
\* the file system and the tool's process can do.

\* What subprocess.run does: the process exits, or run raises.
ProcOutcomes == {"exited", "timeout", "exception"}

\* stderr of the process, and result.stderr.split('\n').
Stderrs == {"", "warning", "error\n"}

SplitLines(text) ==
    CASE text = "warning" -> <<"warning">>
      [] text = "error\n" -> <<"error", "">>
      [] OTHER -> <<"">>

\* stdout of kube-linter, and what lines 56-62 make of it.
LintStdouts == {"", "not json", "no reports", "one report"}

ParseLintOutput(stdout) ==
    IF stdout = "one report" THEN <<LintReport("no-resources")>> ELSE <<>>

KubevalRuns ==
    [tool : {"kubeval"}, exists : BOOLEAN, proc : ProcOutcomes,
     returncode : {0, 1}, stderr : Stderrs]

KubeLinterRuns ==
    [tool : {"kube-linter"}, exists : BOOLEAN, proc : ProcOutcomes,
     returncode : {0, 1}, stderr : {"", "warning"}, stdout : LintStdouts]

\* terraform validate: unavailable, or what _run_terraform_validate returns.
TerraformValidateOutcomes ==
    {"unavailable", "valid", "valid_with_diagnostics", "invalid", "failed",
     "timeout"}

\* tfsec and tflint: unavailable, or what _run_tfsec / _run_tflint return.
ScanOutcomes == {"unavailable", "no_issues", "one_issue", "timeout"}

TerraformRuns ==
    [tool : {"terraform"}, exists : BOOLEAN,
     validate : TerraformValidateOutcomes, tfsec : ScanOutcomes,
     tflint : ScanOutcomes]

ToolRuns == KubevalRuns \cup KubeLinterRuns \cup TerraformRuns

\* kubeval_tool.py lines 30-86.
KubevalValidateFile(run) ==
    IF ~run.exists
    THEN [file |-> 1, valid |-> FALSE, errors |-> <<"File not found">>]
    ELSE IF run.proc = "timeout"
    THEN [file |-> 1, valid |-> FALSE,
          errors |-> <<"Validation timeout after 30 seconds">>]
    ELSE IF run.proc = "exception"
    THEN [file |-> 1, valid |-> FALSE, errors |-> <<"Validation error">>]
    ELSE [file |-> 1, valid |-> (run.returncode = 0),
          errors |-> IF run.stderr # "" THEN SplitLines(run.stderr)
                     ELSE <<>>]

\* kubelinter_tool.py lines 30-88.
KubeLinterLintFile(run) ==
    IF ~run.exists
    THEN [file |-> 1, valid |-> FALSE, Reports |-> <<>>,
          errors |-> <<"File not found">>]
    ELSE IF run.proc = "timeout"
    THEN [file |-> 1, valid |-> FALSE, Reports |-> <<>>,
          errors |-> <<"Linting timeout after 30 seconds">>]
    ELSE IF run.proc = "exception"
    THEN [file |-> 1, valid |-> FALSE, Reports |-> <<>>,
          errors |-> <<"Linting error">>]
    ELSE [file |-> 1, valid |-> (run.returncode = 0),
          Reports |-> ParseLintOutput(run.stdout),
          errors |-> IF run.stderr # "" THEN SplitLines(run.stderr)
                     ELSE <<>>]

\* terraform_tools.py lines 94-142: the dict _run_terraform_validate returns.
RunTerraformValidate(outcome) ==
    CASE outcome = "valid" -> [valid |-> TRUE, errors |-> <<>>]
      [] outcome = "valid_with_diagnostics" ->
             [valid |-> TRUE, errors |-> <<"diagnostic">>]
      [] outcome = "invalid" -> [valid |-> FALSE, errors |-> <<"diagnostic">>]
      [] outcome = "failed" -> [valid |-> FALSE, errors |-> <<"Validation failed">>]
      [] outcome = "timeout" ->
             [valid |-> FALSE, errors |-> <<"Terraform validate timeout">>]

\* terraform_tools.py lines 144-216: the issues _run_tfsec or _run_tflint
\* return; a timeout or an exception is reported as an issue.
RunScan(outcome) ==
    CASE outcome = "one_issue" -> <<"issue">>
      [] outcome = "timeout" -> <<"timeout">>
      [] OTHER -> <<>>

\* terraform_tools.py lines 51-92.
TerraformValidateFile(run) ==
    IF ~run.exists
    THEN [file |-> 1, valid |-> FALSE, errors |-> <<"File not found">>,
          terraform_validate |->
              [valid |-> FALSE, errors |-> <<"File not found">>],
          tfsec_issues |-> <<>>, tflint_issues |-> <<>>]
    ELSE LET tf == IF run.validate = "unavailable"
                   THEN [valid |-> TRUE, errors |-> <<>>]
                   ELSE RunTerraformValidate(run.validate)
             tfsec == RunScan(run.tfsec)
         IN  [file |-> 1,
              valid |-> (tf.valid /\ tfsec = <<>>),
              errors |-> IF tf.valid THEN <<>> ELSE tf.errors,
              terraform_validate |-> tf,
              tfsec_issues |-> tfsec,
              tflint_issues |-> RunScan(run.tflint)]

InitTools ==
    /\ pc = "tool"
    /\ tool_run \in ToolRuns
    /\ k8s_files = FileList(1)
    /\ batch_size = 1
    /\ output_file = FALSE
    /\ file = <<>>
    /\ batches = <<>>
    /\ total_batches = -1
    /\ batch_num = 0
    /\ idx = 0
    /\ batch_kubeconform_results = <<>>
    /\ batch_kubelinter_results = <<>>
    /\ all_kubeconform_results = <<>>
    /\ all_kubelinter_results = <<>>
    /\ skipped_batches = <<>>
    /\ skipped_files = <<>>
    /\ batch_reports = <<>>
    /\ err = NoError
    /\ result = NoResult
    /\ summarizer_calls = 0
    /\ schema_status = [f \in 1..MaxFiles |-> "notrun"]
    /\ lint_status = [f \in 1..MaxFiles |-> "notrun"]
    /\ sink_failed = FALSE
    /\ faults = {}
    /\ exit_code = -1

\* One call of a checker on one file.
RunTool ==
    /\ pc = "tool"
    /\ pc' = "tool_done"
    /\ result' = CASE tool_run.tool = "kubeval" -> KubevalValidateFile(tool_run)
                   [] tool_run.tool = "kube-linter" ->
                          KubeLinterLintFile(tool_run)
                   [] tool_run.tool = "terraform" ->
                          TerraformValidateFile(tool_run)
    /\ UNCHANGED <<k8s_files, batch_size, output_file, file, batches,
                   total_batches, batch_num, idx, batch_kubeconform_results,
                   batch_kubelinter_results, all_kubeconform_results,
                   all_kubelinter_results, skipped_batches, skipped_files,
                   batch_reports, err, summarizer_calls, schema_status,
                   lint_status, sink_failed, faults, exit_code, tool_run>>

SpecTools == InitTools /\ [][RunTool]_vars

-----------------------------------------------------------------------------
\* Claims.

\* C1: when a batch fails as a whole (control is in the batch's except
\* handler, also after a failed append of its fragment), the batch is
\* recorded in skipped_batches with its number, its files and the error, and
\* the run goes on with the next batch (or leaves the loop after the last
\* one); it does not end there.
C1_FailedBatchRecordedRunContinues ==
    [][pc = "handler" =>
         /\ skipped_batches' =
              Append(skipped_batches,
                     [batch_number |-> batch_num, files |-> batch_files,
                      error |-> err])
         /\ IF batch_num < total_batches
            THEN pc' = "schema" /\ batch_num' = batch_num + 1
            ELSE pc' = "check"]_vars

\* One fragment of the output file per batch 1..k, in batch order.
FragmentsOfBatches(content, k) ==
    /\ Len(content) = k + 1
    /\ content[1] = Header
    /\ \A j \in 1..k :
         /\ content[j + 1].kind = "batch"
         /\ content[j + 1].batch = j
         /\ content[j + 1].files = batches[j]

\* C2: with an output file, while batch batch_num is being checked (from
\* before its first checker call on) the file holds the header followed by
\* the fragments of batches 1..batch_num-1 in batch order, and when the loop
\* has ended it holds the fragments of all batches.
C2_FragmentsInBatchOrder ==
    /\ (output_file /\ pc \in {"schema", "lint", "finish"})
         => FragmentsOfBatches(file, batch_num - 1)
    /\ (output_file /\ pc \in {"check", "report"})
         => FragmentsOfBatches(file, total_batches)

\* C2 witness: the second batch is about to call its first checker and the
\* file holds the header and the fragment of batch 1.
C2_Witness ==
    /\ output_file
    /\ pc = "schema"
    /\ batch_num = 2
    /\ idx = 1
    /\ schema_status[batch_files[1]] = "notrun"
    /\ Len(file) = 2
    /\ file[2].status = "ok"

\* C3: a batch fragment that is in the output file stays in it at every
\* later step of the run.
C3_OutputFileAppendOnly ==
    [][\A i \in 1..Len(file) :
          file[i].kind = "batch" => InSeq(file[i], file')]_vars

\* The concatenation of a list of lists.

\* C4: for batch_size > 0 the batches concatenate back to the file list,
\* every batch has at most batch_size files and every batch but the last
\* has exactly batch_size.
C4_PartitionCoverage ==
    (total_batches # -1 /\ batch_size > 0) =>
        /\ total_batches = Len(batches)
        /\ Flatten(batches) = k8s_files
        /\ \A j \in 1..Len(batches) : Len(batches[j]) <= batch_size
        /\ \A j \in 1..(Len(batches) - 1) : Len(batches[j]) = batch_size

\* C4 witness: a partition into several full batches and a shorter last one.
C4_Witness ==
    /\ total_batches = 3
    /\ batch_size = 3
    /\ Len(k8s_files) = 7
    /\ batches[3] = <<7>>

\* What an explicit rejection of the batch size would report.
InvalidBatchSizeError == "invalid batch size"

\* C5: a run with batch_size <= 0 never calls a checker and never touches
\* the output file, and once the repository has been read it ends with the
\* error status and an error that names the batch size.
C5_NonPositiveBatchSizeRejected ==
    batch_size <= 0 =>
        /\ file = <<>>
        /\ \A f \in 1..MaxFiles :
             schema_status[f] = "notrun" /\ lint_status[f] = "notrun"
        /\ (pc = "done" /\ result.status # "no_files")
             => /\ result.status = "error"
                /\ result.error \in {InvalidBatchSizeError, CloneError}

\* C6: a run whose only trouble is content findings (no write to the output
\* file raised, no checker call failed, no batch failed, every lint output
\* is a dict) and in which some schema result carries errors ends with the
\* success status and counts those errors in the summary.
C6_ContentFindingsNotFatal ==
    (/\ pc = "done"
     /\ ~sink_failed
     /\ skipped_files = <<>>
     /\ skipped_batches = <<>>
     /\ ~HasNonDict(all_kubelinter_results)
     /\ \E i \in 1..Len(all_kubeconform_results) :
          all_kubeconform_results[i].errors # <<>>)
    => /\ result.status = "success"
       /\ result.summary.total_errors =
            SumSeq([i \in 1..Len(all_kubeconform_results) |->
                      Len(all_kubeconform_results[i].errors)])

\* The text part names the error e.
Mentions(part, e) == "error" \in DOMAIN part /\ part.error = e

\* C7: a run in which every batch failed returns the error status, has
\* called the language model never, and its report text names the failure
\* reason of every failed batch.
C7_AllBatchesFailed ==
    (pc = "done" /\ total_batches > 0 /\ Len(skipped_batches) = total_batches)
    => /\ result.status = "error"
       /\ summarizer_calls = 0
       /\ \A i \in 1..Len(skipped_batches) :
            \E j \in 1..Len(result.report) :
              Mentions(result.report[j], skipped_batches[i].error)

Failed == {"raised", "unusable"}

HasResultFor(results, f) == \E i \in 1..Len(results) : results[i].file = f

\* C8: a checker's failure on a file never makes the batch fail (the batch
\* handler only ever sees the two structural errors, and only those are
\* recorded), and when the loops of a batch are through every file of the
\* batch was schema-checked, every file with a schema result was linted, and
\* every result a checker returned is in the batch's outputs.
C8_CheckerErrorIsolated ==
    /\ pc = "handler" => err \in {ListGetError, SinkError}
    /\ \A i \in 1..Len(skipped_batches) :
         skipped_batches[i].error \in {ListGetError, SinkError}
    /\ pc = "finish" =>
         \A i \in 1..Len(batch_files) :
           LET g == batch_files[i]
           IN  /\ schema_status[g] # "notrun"
               /\ schema_status[g] = "result"
                    => /\ HasResultFor(batch_kubeconform_results, g)
                       /\ lint_status[g] # "notrun"
               /\ lint_status[g] = "result"
                    => HasResultFor(batch_kubelinter_results, g)

\* C8 witness: the schema checker raised on the first file of a batch of
\* two, the lint checker raised on nothing, and the second file has both
\* its results.
C8_Witness ==
    /\ pc = "finish"
    /\ batch_files = <<1, 2>>
    /\ schema_status[1] = "raised"
    /\ schema_status[2] = "result"
    /\ lint_status[2] = "result"
    /\ HasResultFor(batch_kubeconform_results, 2)
    /\ HasResultFor(batch_kubelinter_results, 2)

\* C9: when the loops of a batch are through, the lint checker has been
\* called on every file of the batch.
C9_LintOnEveryFile ==
    pc = "finish" =>
        \A i \in 1..Len(batch_files) : lint_status[batch_files[i]] # "notrun"

\* C9 amended: the lint checker is called on exactly the files of the batch
\* for which the schema checker returned a result, whatever that result's
\* verdict; a file whose schema check raised or returned nothing usable is
\* not linted.
C9_LintIffSchemaResult ==
    /\ \A f \in 1..MaxFiles :
         lint_status[f] # "notrun" => schema_status[f] = "result"
    /\ pc = "finish" =>
         \A i \in 1..Len(batch_files) :
           lint_status[batch_files[i]] # "notrun"
             <=> schema_status[batch_files[i]] = "result"

\* C9 witness: in one batch the schema check raised on file 1, which was
\* not linted, and file 2 with an invalid schema result was linted.
C9_Witness ==
    /\ pc = "finish"
    /\ batch_files = <<1, 2>>
    /\ schema_status[1] = "raised"
    /\ lint_status[1] = "notrun"
    /\ ~batch_kubeconform_results[1].valid
    /\ batch_kubeconform_results[1].file = 2
    /\ lint_status[2] = "result"

\* The skipped-file list a finished run returns, where it returns one.
ReturnsSkippedList == pc = "done" /\ "skipped_batches" \in DOMAIN result

ReturnedSkipped ==
    IF "skipped_file_list" \in DOMAIN result
    THEN result.skipped_file_list
    ELSE SeqToSet(result.skipped_files)

\* C10: at the end of a run a file is listed as skipped iff every checker
\* run on it failed at process level, so no file with a checker result is
\* listed.
C10_SkippedIffAllCheckersFailed ==
    ReturnsSkippedList =>
        \A f \in 1..MaxFiles :
          f \in ReturnedSkipped
            <=> (schema_status[f] \in Failed /\ lint_status[f] # "result")

\* C10 amended: at the end of a run a file is listed as skipped iff some
\* checker called on it failed at process level (raised or returned nothing
\* usable): the schema checker, or the lint checker after a schema result.
C10_SkippedIffSomeCheckerFailed ==
    ReturnsSkippedList =>
        \A f \in 1..MaxFiles :
          f \in ReturnedSkipped
            <=> (schema_status[f] \in Failed \/ lint_status[f] \in Failed)

\* C10 witness: a successful run lists file 1, which has a schema result
\* and whose lint check raised, and does not list file 2.
C10_Witness ==
    /\ pc = "done"
    /\ result.status = "success"
    /\ schema_status[1] = "result"
    /\ lint_status[1] = "raised"
    /\ ~SingleBatchRun
    /\ result.skipped_file_list = {1}
    /\ HasResultFor(result.kubeconform_results, 1)
    /\ Len(k8s_files) = 2

\* The files of a list of results.
FilesOf(rs) == {rs[i].file : i \in 1..Len(rs)}

\* s[n:]
Drop(s, n) == SubSeq(s, n + 1, Len(s))

\* A summary is the sum of two others, field by field; total_files is the
\* number of distinct files of all results.
IsFoldOf(whole, s1, s2, files) ==
    /\ whole.raised = NoError /\ s1.raised = NoError /\ s2.raised = NoError
    /\ whole.valid_files = s1.valid_files + s2.valid_files
    /\ whole.invalid_files = s1.invalid_files + s2.invalid_files
    /\ whole.total_errors = s1.total_errors + s2.total_errors
    /\ whole.total_warnings = s1.total_warnings + s2.total_warnings
    /\ \A c \in DOMAIN whole.error_types \cup DOMAIN s1.error_types
                \cup DOMAIN s2.error_types :
         Get(whole.error_types, c)
           = Get(s1.error_types, c) + Get(s2.error_types, c)
    /\ \A c \in DOMAIN whole.warning_types \cup DOMAIN s1.warning_types
                \cup DOMAIN s2.warning_types :
         Get(whole.warning_types, c)
           = Get(s1.warning_types, c) + Get(s2.warning_types, c)
    /\ whole.fixes = s1.fixes \o s2.fixes
    /\ whole.total_files = Cardinality(files)

\* C11: for every split of the results into a first part and a rest
\* (each list cut at any position), analyze_combined_results over all
\* results returns a summary, and so does it over each part, and the summary
\* of the whole has valid_files, invalid_files, total_errors, total_warnings
\* and every category count equal to the sums over the parts, fixes equal to
\* the concatenation and total_files equal to the number of distinct files.
C11_FoldEqualsOneShot ==
    pc = "analyzed" =>
        \A i \in 0..Len(all_kubeconform_results),
           j \in 0..Len(all_kubelinter_results) :
            IsFoldOf(result,
                     analyze_combined_results(
                         SubSeq(all_kubeconform_results, 1, i),
                         SubSeq(all_kubelinter_results, 1, j)),
                     analyze_combined_results(
                         Drop(all_kubeconform_results, i),
                         Drop(all_kubelinter_results, j)),
                     FilesOf(all_kubeconform_results)
                         \cup FilesOf(all_kubelinter_results))

\* C12: in every summary analyze_combined_results returns, the counts of
\* error_types add up to total_errors and the counts of warning_types add up
\* to total_warnings.
C12_CategoryCountsAddUp ==
    (pc = "analyzed" /\ result.raised = NoError) =>
        /\ SumValues(result.error_types) = result.total_errors
        /\ SumValues(result.warning_types) = result.total_warnings

\* The results of the example: a (file 1) is valid, b (file 2) has one
\* schema error about a missing apiVersion, c (file 3) has one lint report
\* of the check no-resources; every file has a result of both checkers.
ExampleSchemaResults ==
    <<AnalyzedSchemaResult(1, "valid"), AnalyzedSchemaResult(2, "apiversion"),
      AnalyzedSchemaResult(3, "valid")>>

ExampleLintResults ==
    <<AnalyzedLintResult(1, "clean"), AnalyzedLintResult(2, "clean"),
      AnalyzedLintResult(3, "no-resources")>>

\* C13: for the example and batch size 2 the batches are [[a, b], [c]] and
\* the summary has total_files 3, valid_files 1, invalid_files 2, error_types
\* {API Version: 1}, warning_types {Resource Management: 1}, and fixes holds
\* one 'API Version Fix' and one 'Resource Limits Fix'.
C13_ExampleSummary ==
    (/\ pc = "analyzed"
     /\ all_kubeconform_results = ExampleSchemaResults
     /\ all_kubelinter_results = ExampleLintResults) =>
        /\ Batches(FileList(3), 2) = <<<<1, 2>>, <<3>>>>
        /\ result.raised = NoError
        /\ result.total_files = 3
        /\ result.valid_files = 1
        /\ result.invalid_files = 2
        /\ result.error_types = [c \in {"API Version"} |-> 1]
        /\ result.warning_types = [c \in {"Resource Management"} |-> 1]
        /\ Cardinality({i \in 1..Len(result.fixes) :
                          result.fixes[i].type = "API Version Fix"}) = 1
        /\ Cardinality({i \in 1..Len(result.fixes) :
                          result.fixes[i].type = "Resource Limits Fix"}) = 1

\* The findings a checker's result carries: errors, lint reports, issues.
HasFindings(r) ==
    \/ r.errors # <<>>
    \/ "Reports" \in DOMAIN r /\ r.Reports # <<>>
    \/ /\ "terraform_validate" \in DOMAIN r
       /\ \/ r.terraform_validate.errors # <<>>
          \/ r.tfsec_issues # <<>>
          \/ r.tflint_issues # <<>>

\* The tool itself failed: the file is missing, the process could not be
\* run to its end, or it ended with a return code other than 0.
ToolFailed(run) ==
    \/ ~run.exists
    \/ "proc" \in DOMAIN run /\ run.proc # "exited"
    \/ "proc" \in DOMAIN run /\ run.returncode # 0
    \/ /\ "validate" \in DOMAIN run
       /\ \/ run.validate \in {"failed", "timeout"}
          \/ run.tfsec = "timeout"
          \/ run.tflint = "timeout"

\* C14: every result a checker returns has valid false exactly when it
\* carries at least one finding or the tool itself failed.
C14_ValidIffNoFindingNoFailure ==
    pc = "tool_done" =>
        (~result.valid <=> (HasFindings(result) \/ ToolFailed(tool_run)))

\* No checker and no language model was called.
NothingInvoked ==
    /\ \A f \in DOMAIN schema_status : schema_status[f] = "notrun"
    /\ \A f \in DOMAIN lint_status : lint_status[f] = "notrun"
    /\ summarizer_calls = 0

\* C15: a run whose file discovery finds no files (and whose clone did not
\* fail) ends with the status no_files and the exit code 2, its report says
\* that no files were found, and no checker and no language model was called.
C15_NoFilesStatus ==
    (pc = "exit" /\ k8s_files = <<>> /\ "clone" \notin faults) =>
        /\ result.status = "no_files"
        /\ exit_code = 2
        /\ ReportOf(result) = NoFilesResult.report
        /\ NothingInvoked

\* Some batch or some file was skipped.
SomethingSkipped == skipped_batches # <<>> \/ skipped_files # <<>>

\* The run is over and did not end with the error status.
Completed == pc \in {"done", "exit"} /\ result.status # "error"

\* C16 as stated: a completed run in which something was skipped and at
\* least one batch succeeded has a status other than 'success', the status
\* of a run in which nothing was skipped.
C16_SkipsChangeStatus ==
    (Completed /\ SomethingSkipped /\ batch_reports # <<>>) =>
        result.status # "success"

\* C16 amended: a completed run in which something was skipped and at least
\* one batch succeeded has the status 'success' like any other completed
\* run; the skips are carried by batches_skipped, skipped_files,
\* skipped_batches and skipped_file_list, and the exit code is 0 or 3 by the
\* valid flags of the results alone.
C16_SkipsDoNotChangeStatus ==
    (Completed /\ SomethingSkipped /\ batch_reports # <<>>) =>
        /\ result.status = "success"
        /\ result.batches_skipped = Len(skipped_batches)
        /\ result.skipped_batches = skipped_batches
        /\ result.skipped_files = Cardinality(SeqToSet(skipped_files))
        /\ result.skipped_file_list = SeqToSet(skipped_files)
        /\ pc = "exit" =>
              exit_code =
                IF /\ \A i \in 1..Len(all_kubeconform_results) :
                        all_kubeconform_results[i].valid
                   /\ \A j \in 1..Len(all_kubelinter_results) :
                        all_kubelinter_results[j].valid
                THEN 0 ELSE 3

\* C16 witness: a run with a skipped batch and a succeeded batch has ended
\* with the status 'success' and the exit code 0.
C16_Witness ==
    /\ pc = "exit"
    /\ skipped_batches # <<>>
    /\ batch_reports # <<>>
    /\ result.status = "success"
    /\ exit_code = 0

\* The batch numbers recorded in skipped_batches.
SkippedBatchNumbers ==
    {skipped_batches[i].batch_number : i \in 1..Len(skipped_batches)}

\* The results among rs of the files of batch k, in their order.
ResultsOfBatch(rs, k) ==
    Flatten([i \in 1..Len(rs) |->
               IF InSeq(rs[i].file, batches[k]) THEN <<rs[i]>> ELSE <<>>])

\* The fragment of batch k, from the cumulative results.
FragmentOf(k) ==
    BatchReport(k, batches[k], ResultsOfBatch(all_kubeconform_results, k),
                ResultsOfBatch(all_kubelinter_results, k))

\* The fragments of the batches that are not recorded as skipped, in batch order.
FragmentsOfSucceeded ==
    Flatten([k \in 1..total_batches |->
               IF k \in SkippedBatchNumbers THEN <<>> ELSE <<FragmentOf(k)>>])

\* C17: the report of a successful run is the narrative report built from
\* the summary of the cumulative results, then (under one heading) the
\* fragment of every batch that was not skipped, each once and in batch
\* order, then the processing notes exactly when something was skipped.
C17_FinalReportLayout ==
    (pc \in {"done", "exit"} /\ result.status = "success"
       /\ ~SingleBatchRun) =>
        /\ \E ai \in AiAnalyses :
             result.report[1] =
               RepositoryReport(
                   analyze_combined_results(all_kubeconform_results,
                                            all_kubelinter_results), ai)
        /\ result.report =
             <<result.report[1]>>
             \o (IF FragmentsOfSucceeded # <<>>
                 THEN <<[kind |-> "batch_details_heading"]>>
                      \o FragmentsOfSucceeded
                 ELSE <<>>)
             \o (IF SomethingSkipped
                 THEN <<ProcessingNotes(result.processed_files)>>
                 ELSE <<>>)

\* C17 witness: a successful run with a batch recorded as skipped, whose
\* report has the narrative, the heading, the fragment of every other batch
\* and the processing notes.
C17_Witness ==
    /\ pc = "exit"
    /\ result.status = "success"
    /\ SkippedBatchNumbers # {}
    /\ Len(batch_reports) >= 1
    /\ Len(result.report) = 3 + Len(batch_reports)

\* C18: once the language model call has raised, the run is over with the
\* status 'success' and a report whose analysis is the text 'AI analysis
\* unavailable'.
C18_SummarizerFailureTolerated ==
    "llm" \in faults =>
        /\ pc \in {"done", "exit"}
        /\ result.status = "success"
        /\ LET report == IF SingleBatchRun
                         THEN result.comprehensive_report
                         ELSE result.report[1]
           IN  /\ report.kind = "narrative"
               /\ report.ai_analysis = "AI analysis unavailable"

\* C18 witness: the language model call raised and main has returned 0 or 3.
C18_Witness ==
    /\ "llm" \in faults
    /\ pc = "exit"
    /\ exit_code \in {0, 3}

\* Batch k has its outcome: a fragment, or a record in skipped_batches.
HasOutcome(k) ==
    \/ \E i \in 1..Len(batch_reports) : batch_reports[i].batch = k
    \/ k \in SkippedBatchNumbers

\* Some checker was called on file f.
Checked(f) == schema_status[f] # "notrun" \/ lint_status[f] # "notrun"

\* C19: while batch k is processed every earlier batch has its outcome, no
\* later batch has one, and no file of a later batch was passed to a
\* checker; the language model is called at most once, and only when every
\* batch has its outcome.
C19_BatchesInSequence ==
    /\ pc \in {"schema", "lint", "finish", "handler"} =>
          /\ \A k \in 1..total_batches : HasOutcome(k) <=> k < batch_num
          /\ \A k \in (batch_num + 1)..total_batches :
               \A i \in 1..Len(batches[k]) : ~Checked(batches[k][i])
    /\ summarizer_calls <= 1
    /\ (summarizer_calls = 1 /\ ~SingleBatchRun) =>
          /\ total_batches >= 1
          /\ \A k \in 1..total_batches : HasOutcome(k)

\* C19 witness: the language model was called after a run of two batches,
\* one recorded as skipped and one with a fragment.
C19_Witness ==
    /\ summarizer_calls = 1
    /\ total_batches = 2
    /\ skipped_batches # <<>>
    /\ batch_reports # <<>>

\* C20: once clone_repo has raised, the run is over with the status 'error',
\* no checker and no language model was called, and the output file holds
\* no batch fragment.
C20_FetchFailureIsError ==
    "clone" \in faults =>
        /\ pc \in {"done", "exit"}
        /\ result.status = "error"
        /\ result.error = CloneError
        /\ NothingInvoked
        /\ \A i \in 1..Len(file) : file[i].kind # "batch"

\* C20 witness: clone_repo raised in validate_repository and main returned 1.
C20_Witness ==
    /\ "clone" \in faults
    /\ pc = "exit"
    /\ exit_code = 1
    /\ "report" \notin DOMAIN result

-----------------------------------------------------------------------------
\* Recommendations, classification and fixes (SpecFindings).

Returned == pc = "analyzed" /\ result.raised = NoError

\* The recommendations of the six categories, for those with a count above
\* 0, in the order security, missing required fields, schema, resource
\* limits, health checks, image tags.
PriorityRecommendations(summary) ==
    (IF Get(summary.warning_types, "Security Configuration") > 0
     THEN <<"Address security vulnerabilities">> ELSE <<>>)
    \o (IF Get(summary.error_types, "Missing Required Fields") > 0
        THEN <<"Add missing required fields">> ELSE <<>>)
    \o (IF Get(summary.error_types, "Schema Validation") > 0
        THEN <<"Fix schema validation errors">> ELSE <<>>)
    \o (IF Get(summary.warning_types, "Resource Management") > 0
        THEN <<"Configure proper resource limits">> ELSE <<>>)
    \o (IF Get(summary.warning_types, "Health Monitoring") > 0
        THEN <<"Add health checks">> ELSE <<>>)
    \o (IF Get(summary.warning_types, "Image Configuration") > 0
        THEN <<"Use specific image tags">> ELSE <<>>)

SixRecommendations ==
    {"Address security vulnerabilities", "Add missing required fields",
     "Fix schema validation errors", "Configure proper resource limits",
     "Add health checks", "Use specific image tags"}

\* C21: the recommendations of a summary contain, for each of the six
\* categories whose count is above 0, that category's recommendation, and
\* these stand in the order of priority, security first.
C21_RecommendationsByPriority ==
    Returned =>
        SelectSeq(result.recommendations,
                  LAMBDA r : r \in SixRecommendations)
            = PriorityRecommendations(result)

\* The categories _categorize_kubeconform_error returns.
ErrorCategories ==
    {"Schema Validation", "API Version", "Resource Kind", "Metadata Issues",
     "Specification Errors", "Missing Required Fields",
     "Format/Syntax Errors", "Validation Timeout", "File Not Found",
     "Other Validation Errors"}

\* The categories _categorize_kubelinter_issue returns.
LintCategories ==
    {"Unknown Issue", "Security Configuration", "Resource Management",
     "Image Configuration", "Health Monitoring",
     "Availability & Reliability", "Best Practice Violations"}

\* C22: classifying a finding never fails and gives a category of the fixed
\* set, the empty string included: the classification of schema errors that
\* analyze_combined_results uses, and the one of lint reports by check name.
C22_ClassifiersAreTotal ==
    pc = "analyzed" =>
        /\ result.raised # CategorizeError
        /\ \A e \in FindingErrors :
             categorize_kubeconform_error(e) \in ErrorCategories
        /\ \A c \in CheckNames :
             categorize_kubelinter_issue(c) \in LintCategories
        /\ result.raised = NoError =>
             /\ DOMAIN result.error_types \subseteq ErrorCategories
             /\ DOMAIN result.warning_types \subseteq LintCategories

\* The reports of the lint result whose check name matches no rule and whose
\* message matches none either.
UnmatchedReports ==
    LET reports == CountedReports(all_kubelinter_results)
    IN  {j \in 1..Len(reports) :
           /\ reports[j].Check # JsonNull
           /\ categorize_kubelinter_issue(reports[j].Check)
                = "Best Practice Violations"
           /\ ChecksInMessage(reports[j].Message) = {}}

\* C23: a report whose check name matches no rule is classified by the
\* keywords of its message; it counts as 'Best Practice Violations' only
\* when the message matches no rule either.
C23_MessageDecidesUnmatchedCheck ==
    Returned =>
        Get(result.warning_types, "Best Practice Violations")
            = Cardinality(UnmatchedReports)

-----------------------------------------------------------------------------
\* The counts of the fragments against the summary (Spec).

\* C24: the fragments of the successful batches give as error count the
\* number of schema error findings of their batch and as warning count the
\* number of its lint reports; summed over the fragments these counts are
\* total_errors and total_warnings of the final summary.
C24_FragmentCountsAddUp ==
    (pc = "done" /\ result.status = "success" /\ ~SingleBatchRun) =>
        /\ SumSeq([i \in 1..Len(batch_reports) |-> batch_reports[i].errors])
             = result.summary.total_errors
        /\ SumSeq([i \in 1..Len(batch_reports) |-> batch_reports[i].warnings])
             = result.summary.total_warnings

-----------------------------------------------------------------------------
\* Fixes against findings (SpecFindings).

\* The findings of the results in input order, schema results first: for
\* each the file of its result and its message.
Findings(kc, kl) ==
    Flatten([i \in 1..Len(kc) |->
               [j \in 1..Len(kc[i].errors) |->
                  [file |-> kc[i].file, issue |-> kc[i].errors[j]]]])
    \o Flatten([i \in 1..Len(kl) |->
                  [j \in 1..Len(kl[i].Reports) |->
                     [file |-> kl[i].file,
                      issue |-> kl[i].Reports[j].Message]]])

\* Every element of fixes is taken from its own element of findings, in
\* the same order: fixes is a subsequence of findings by file and issue.
RECURSIVE DerivedInOrder(_, _)
DerivedInOrder(fixes, findings) ==
    IF fixes = <<>> THEN TRUE
    ELSE IF findings = <<>> THEN FALSE
    ELSE IF /\ Head(fixes).file = Head(findings).file
            /\ Head(fixes).issue = Head(findings).issue
    THEN DerivedInOrder(Tail(fixes), Tail(findings))
    ELSE DerivedInOrder(fixes, Tail(findings))

\* C25: every fix comes from exactly one finding of the input results, with
\* the file of the result that carries the finding and the finding's message
\* as its issue; no finding gives two fixes, and the fixes follow the input
\* order, schema results first.  Stated of _generate_fixes on every input
\* and of the fixes of every summary returned.
C25_FixesFollowFindings ==
    pc = "analyzed" =>
        /\ DerivedInOrder(generate_fixes(all_kubeconform_results,
                                         all_kubelinter_results),
                          Findings(all_kubeconform_results,
                                   all_kubelinter_results))
        /\ result.raised = NoError =>
             result.fixes = generate_fixes(all_kubeconform_results,
                                           all_kubelinter_results)

\* A summary is returned whose fixes come from two reports of one file with
\* different messages, after the results of two files without findings.
C25_Witness ==
    /\ Returned
    /\ Len(all_kubeconform_results) = 2
    /\ Len(result.fixes) = 2
    /\ result.fixes[1].issue = "image uses the latest-tag"
    /\ result.fixes[2].issue = "message"

-----------------------------------------------------------------------------
\* The file counts of a summary (SpecAnalyze).

\* C29: in every summary analyze_combined_results returns, valid_files plus
\* invalid_files is total_files, whatever the schema results and the lint
\* results are.
C29_ValidPlusInvalidIsTotal ==
    Returned => result.valid_files + result.invalid_files = result.total_files

-----------------------------------------------------------------------------
\* The cumulative results, the output file and the returned report (Spec).

\* C27: no result of a batch recorded in skipped_batches is in the
\* cumulative lists, which are what the final summary and the language
\* model are given.
C27_SkippedBatchLeavesNoResult ==
    \A k \in SkippedBatchNumbers :
        /\ ResultsOfBatch(all_kubeconform_results, k) = <<>>
        /\ ResultsOfBatch(all_kubelinter_results, k) = <<>>

\* What the output file holds: what the run wrote, or the report main saved
\* into a file that did not exist.
FileContent ==
    IF Len(file) = 1 /\ file[1].kind = "saved" THEN file[1].report ELSE file

\* C28: with an output file, when a successful run over all batches has
\* ended, the file holds the report returned to the caller: the narrative
\* report, the fragments of the batches and the processing notes.
C28_FileHoldsReturnedReport ==
    (pc = "exit" /\ output_file /\ result.status = "success"
       /\ "report" \in DOMAIN result) =>
        FileContent = result.report

-----------------------------------------------------------------------------
\* The single-batch path (Spec).

\* The files some checker was called on.
CheckedFiles == {f \in 1..MaxFiles : Checked(f)}

\* C26: with single_batch the checkers are called on the first batch of
\* the discovered files only: at most batch_size files are checked (none for
\* a batch_size below 1), they are the first files of the list, and no other
\* file is passed to a checker, whatever batch_size is.
C26_OnlyFirstBatchChecked ==
    SingleBatchRun =>
        /\ Cardinality(CheckedFiles) <= Max(batch_size, 0)
        /\ CheckedFiles \subseteq
             {k8s_files[i] : i \in 1..Min(batch_size, Len(k8s_files))}

-----------------------------------------------------------------------------
\* Termination.

\* The steps of a call follow one another: each is a checker call, a write
\* or a language model call that returns or raises, or code between them, so
\* a step that can be taken is taken.
SpecFair == Spec /\ WF_vars(Next)

\* The statuses a returned dict carries.
Statuses == {"success", "error", "no_files"}

\* C30: every call of validate_repository ends by returning a dict that
\* carries a status, whichever step fails; no exception leaves it.
C30_ReturnsStatus ==
    /\ <>(pc = "done")
    /\ [](pc \in {"done", "exit"} =>
            /\ "status" \in DOMAIN result
            /\ result.status \in Statuses)

\* C30 witness: a single-batch call whose count of warnings raised has
\* returned the error dict, and main has ended with 1.
C30_Witness ==
    /\ pc = "exit"
    /\ SingleBatchRun
    /\ result.status = "error"
    /\ result.error = ListGetError
    /\ exit_code = 1

=============================================================================
